---- MODULE Spec2Model ----
(***************************************************************************)
(* LazyWatch: proxy based change tracking with batched diff delivery.      *)
(*                                                                         *)
(* The model keeps the watched tree, the pending diff and every delivered  *)
(* diff in one heap of objects with identity, because the code stores the  *)
(* same cloned object in the diff and in the tree.  The event loop is the  *)
(* set of outstanding setImmediate callbacks, the set of outstanding       *)
(* timers and an integer clock.  A delivery (#emit) is stepped listener by *)
(* listener, so that a listener can mutate the tree between two            *)
(* invocations of the same forEach.                                        *)
(***************************************************************************)
EXTENDS Integers, Sequences, FiniteSets, TLC

\* ------------------------------------------------------------------ bounds
MaxAddr == 10
MaxTime == 3
MaxNum == 2
MaxListeners == 2
MaxFns == 3
MaxLength == 3
ThrottleMs == 2
DebounceMs == 2

\* --------------------------------------------------------------- constants
RootAddr == 1
NoHandle == 0

Addr == 1..MaxAddr
Nums == 1..MaxNum
\* the property names of the model: array indices, plain names, `length`
IndexKeys == <<"0", "1", "2">>
Keys == {"0", "1", "2", "a", "u", "n", "length"}
\* enumeration order: integer keys ascending, then the other names
KeyOrder == <<"0", "1", "2", "a", "u", "n", "length">>
RootKeys == {"a", "u"}
ChildKeys == {"n"}
RootPath == <<>>
ChildPath == <<"u">>

\* ------------------------------------------------------------------ values
Undef == [t |-> "undef", v |-> 0]
Null == [t |-> "null", v |-> 0]
Num(n) == [t |-> "num", v |-> n]
NaN == [t |-> "nan", v |-> 0]
\* a non-empty string
Str == [t |-> "str", v |-> 0]
Ref(a) == [t |-> "ref", v |-> a]
EmptyObj == [k \in Keys |-> Undef]
\* an object literal supplied by the caller (not yet on the heap)
Lit(f) == [t |-> "obj", v |-> f]
LitN(x) == Lit([k \in Keys |-> IF k = "n" THEN x ELSE Undef])

\* Utils.isObjectOrArray on a heap value / on a caller value
isObjectOrArray(val) == val.t \in {"ref", "obj"}
\* JavaScript truthiness of the values of the model
Truthy(val) == val.t \in {"ref", "obj", "str"} \/ (val.t = "num" /\ val.v # 0)
\* Object.keys(o)
ObjectKeys(o) == {k \in Keys : o[k] # Undef}

\* parseInt(prop, 10) of a property name; -1 stands for NaN
IsIndex(prop) == \E i \in DOMAIN IndexKeys : IndexKeys[i] = prop
ParseInt(prop) ==
  IF IsIndex(prop) THEN (CHOOSE i \in DOMAIN IndexKeys : IndexKeys[i] = prop) - 1
  ELSE -1
\* Array.isArray of the fields of a tree object or of a caller value: the
\* arrays are the objects that carry a numeric `length` (no operation of the
\* model writes `length` on a plain object of the tree)
IsArray(o) == o["length"].t = "num"
\* the names a for-in loop over o visits: `length` of an array is not
\* enumerable
Enumerable(o, prop) == ~(prop = "length" /\ IsArray(o))
\* for (const prop in o): the names the loop visits, in order
ForIn(o) == SelectSeq(KeyOrder, LAMBDA k : o[k] # Undef /\ Enumerable(o, k))
\* o[prop] = val on a tree object: an array drops the elements at or beyond
\* a new length and grows its length with a write beyond the end
ArraySet(o, prop, val) ==
  IF IsArray(o) /\ prop = "length" /\ val.t = "num"
  THEN [k \in Keys |-> IF k = "length" THEN val
                        ELSE IF IsIndex(k) /\ ParseInt(k) >= val.v THEN Undef
                        ELSE o[k]]
  ELSE IF IsArray(o) /\ IsIndex(prop) /\ ParseInt(prop) >= o["length"].v
  THEN [o EXCEPT ![prop] = val, !["length"] = Num(ParseInt(prop) + 1)]
  ELSE [o EXCEPT ![prop] = val]

\* smallest address not in use
Alloc(h) == CHOOSE a \in Addr \ DOMAIN h : \A b \in Addr \ DOMAIN h : a <= b

\* structural value of a heap value as a set of <<path, kind, number>>
\* entries (what assertEquals on the diff would compare)
RECURSIVE Flat(_, _, _)
Flat(h, val, path) ==
  IF val.t = "ref"
  THEN {<<path, "obj", 0>>} \cup
       UNION {Flat(h, h[val.v][k], Append(path, k)) : k \in ObjectKeys(h[val.v])}
  ELSE {<<path, val.t, val.v>>}
\* the same for a caller value
RECURSIVE FlatLit(_, _)
FlatLit(value, path) ==
  IF value.t = "obj"
  THEN {<<path, "obj", 0>>} \cup
       UNION {FlatLit(value.v[k], Append(path, k)) :
                k \in {kk \in Keys : value.v[kk].t # "undef"}}
  ELSE {<<path, value.t, value.v>>}

\* ------------------------------------------------------------------- state
VARIABLES
  heap,          \* the objects: watched tree, diff fragments, delivered diffs
  masterDiff,    \* DiffTracker.#masterDiff (address of the root fragment)
  listeners,     \* EventEmitter.#listeners: sequence of [listener, path]
  immediateId,   \* EventEmitter.#immediateId (NoHandle = null)
  timeoutId,     \* EventEmitter.#timeoutId (NoHandle = null)
  throttle,      \* EventEmitter.#throttle
  debounce,      \* EventEmitter.#debounce
  lastEmitTime,  \* EventEmitter.#lastEmitTime
  paused,        \* EventEmitter.#paused
  patchMode,     \* ProxyHandler.#patchMode
  immediates,    \* event loop: handles of the outstanding setImmediate callbacks
  timers,        \* event loop: outstanding timers [id, due]
  now,           \* performance.now()
  pc,            \* position of the single thread: "idle", "emit", "silent"
  emitIdx,       \* forEach index inside #emit
  emitDiff,      \* the local `diff` of #emit (address), 0 outside a delivery
  emitRet,       \* where #emit returns to: "idle" or "silent"
  emitList,      \* the array the forEach of #emit iterates (<<>> outside)
  disposed,      \* LazyWatch.#disposed
  mirror,        \* root of a second tree kept in sync by a listener (0: none)
  hist           \* history record (observations used by the properties)

progVars == <<heap, masterDiff, listeners, immediateId, timeoutId, throttle,
              debounce, lastEmitTime, paused, patchMode, immediates, timers,
              now, pc, emitIdx, emitDiff, emitRet, emitList, disposed, mirror>>
vars == <<heap, masterDiff, listeners, immediateId, timeoutId, throttle,
          debounce, lastEmitTime, paused, patchMode, immediates, timers,
          now, pc, emitIdx, emitDiff, emitRet, emitList, disposed, mirror, hist>>

\* The part of the state a synchronous mutation works on.
Cur == [heap |-> heap, immediateId |-> immediateId, timeoutId |-> timeoutId,
        immediates |-> immediates, timers |-> timers, patchMode |-> patchMode,
        paused |-> paused]

\* ------------------------------------------------------------- DiffTracker
\* getDiffObject(path), started at fragment diffObj
RECURSIVE GetDiffObjectFrom(_, _, _)
GetDiffObjectFrom(h, diffObj, path) ==
  IF path = <<>> THEN [heap |-> h, obj |-> diffObj]
  ELSE LET k == Head(path) IN
       IF ~Truthy(h[diffObj][k])
       THEN LET n == Alloc(h) IN
            GetDiffObjectFrom((n :> EmptyObj) @@ [h EXCEPT ![diffObj][k] = Ref(n)],
                              n, Tail(path))
       ELSE IF h[diffObj][k].t = "ref"
       THEN GetDiffObjectFrom(h, h[diffObj][k].v, Tail(path))
       ELSE [heap |-> h, obj |-> 0]   \* a primitive: no fragment object

GetDiffObject(h, path) == GetDiffObjectFrom(h, masterDiff, path)

hasPendingChanges == ObjectKeys(heap[masterDiff]) # {}

\* JSON.parse(JSON.stringify(value)): a new plain value; NaN is written as
\* null
JsonRoundTrip(h, val) ==
  LET RECURSIVE copy(_)
      copy(x) == IF x.t = "ref" THEN Lit([k \in Keys |-> copy(h[x.v][k])])
                 ELSE IF x.t = "nan" THEN Null
                 ELSE x
  IN copy(val)
\* DiffTracker.getPendingDiff
PendingCopy(h) == JsonRoundTrip(h, Ref(masterDiff))

ConsumeDiffNoReset(h) == [diff |-> masterDiff, heap |-> h, master |-> masterDiff]
\* consumeDiff: the fragment handed out and the heap with a fresh empty one
ConsumeDiff(h) ==
  LET n == Alloc(h) IN
  [diff |-> masterDiff, heap |-> (n :> EmptyObj) @@ h, master |-> n]

\* ------------------------------------------------------------ EventEmitter
NewHandle(used) == CHOOSE x \in 1..(Cardinality(used) + 1) :
                     x \notin used /\ \A y \in 1..(x - 1) : y \in used

\* context.setImmediate(() => this.#emit())
SetImmediate(s) ==
  LET x == NewHandle(s.immediates) IN
  [s EXCEPT !.immediates = @ \cup {x}, !.immediateId = x]

\* setTimeout(() => this.#emit(), delay)
SetTimeout(s, delay) ==
  LET x == NewHandle({tm.id : tm \in s.timers}) IN
  [s EXCEPT !.timers = @ \cup {[id |-> x, due |-> now + delay]}, !.timeoutId = x]

ClearPendingNever(s) == s
\* #clearPending
ClearPending(s) ==
  [s EXCEPT !.immediates = @ \ {s.immediateId},
            !.timers = {tm \in @ : tm.id # s.timeoutId}]

ScheduleEmitNoClear(s) ==
  IF s.paused THEN s
  ELSE IF debounce > 0 THEN SetTimeout(s, debounce)
       ELSE IF throttle > 0
       THEN IF now - lastEmitTime >= throttle
            THEN SetImmediate(s)
            ELSE SetTimeout(s, throttle - (now - lastEmitTime))
       ELSE SetImmediate(s)
ScheduleEmitNoThrottle(s) ==
  IF s.paused THEN s
  ELSE IF debounce > 0 THEN SetTimeout(ClearPending(s), debounce)
       ELSE SetImmediate(ClearPending(s))
ScheduleEmitThrottleFirst(s) ==
  IF s.paused THEN s
  ELSE IF throttle > 0
       THEN IF now - lastEmitTime >= throttle
            THEN SetImmediate(ClearPending(s))
            ELSE SetTimeout(ClearPending(s), throttle - (now - lastEmitTime))
       ELSE IF debounce > 0 THEN SetTimeout(ClearPending(s), debounce)
       ELSE SetImmediate(ClearPending(s))
ScheduleEmitNoReset(s) ==
  IF s.paused THEN s
  ELSE IF debounce > 0
       THEN IF s.timers = {} THEN SetTimeout(s, debounce) ELSE s
       ELSE IF throttle > 0
       THEN IF now - lastEmitTime >= throttle
            THEN SetImmediate(ClearPending(s))
            ELSE SetTimeout(ClearPending(s), throttle - (now - lastEmitTime))
       ELSE SetImmediate(ClearPending(s))
\* scheduleEmit
ScheduleEmit(s) ==
  IF s.paused THEN s
  ELSE LET c == ClearPending(s) IN
       IF debounce > 0 THEN SetTimeout(c, debounce)
       ELSE IF throttle > 0
       THEN LET timeSinceLastEmit == now - lastEmitTime IN
            IF timeSinceLastEmit >= throttle
            THEN SetImmediate(c)
            ELSE SetTimeout(c, throttle - timeSinceLastEmit)
       ELSE SetImmediate(c)

RECURSIVE FilterDiffByPath(_, _, _)
FilterDiffWhole(h, current, path) == current
\* #filterDiffByPath: the value found by descending from diff along path,
\* Lit(EmptyObj) (a fresh {}) when a segment is absent
FilterDiffByPath(h, current, path) ==
  IF path = <<>> THEN current
  ELSE IF current.t = "ref" /\ h[current.v][Head(path)] # Undef
       THEN FilterDiffByPath(h, h[current.v][Head(path)], Tail(path))
       ELSE Lit(EmptyObj)

RelevantTruthy(h, filteredDiff) == Truthy(filteredDiff)
\* the test of #emit: filteredDiff && Object.keys(filteredDiff).length > 0
Relevant(h, filteredDiff) ==
  /\ filteredDiff.t = "ref"
  /\ ObjectKeys(h[filteredDiff.v]) # {}

\* ------------------------------------------------------------------ Utils
\* Utils.deepClone of a caller value: a fresh object per container
RECURSIVE DeepClone(_, _), CloneProps(_, _, _, _)
DeepClone(h, value) ==
  IF value.t = "obj"
  THEN LET n == Alloc(h)
           new == IF IsArray(value.v)
                  THEN [EmptyObj EXCEPT !["length"] = value.v["length"]]
                  ELSE EmptyObj
       IN
       [heap |-> CloneProps((n :> new) @@ h, n, value.v, ForIn(value.v)),
        val |-> Ref(n)]
  ELSE [heap |-> h, val |-> value]
CloneProps(h, n, fields, ks) ==
  IF ks = <<>> THEN h
  ELSE LET c == DeepClone(h, fields[Head(ks)]) IN
       CloneProps([c.heap EXCEPT ![n][Head(ks)] = c.val], n, fields, Tail(ks))

StrictNotEqualAlways(cur, value) == TRUE
\* currentValue !== value, for a heap value and a caller value
StrictNotEqual(cur, value) ==
  \/ cur.t # value.t
  \/ cur.t = "num" /\ cur.v # value.v
  \/ cur.t = "nan"

\* ------------------------------------------------------------ ProxyHandler
\* typeof val === 'object'
TypeofObject(val) == val.t \in {"obj", "ref", "null"}
\* the test that opens the constructor: !original || typeof original !== 'object'
ConstructorThrowsFalsy(original) == ~Truthy(original)
ConstructorThrows(original) == ~Truthy(original) \/ ~TypeofObject(original)

\* #handleArrayLengthChange(target, value, path): value is the array whose
\* length is compared with the length of target
HandleArrayLengthChange(s, target, value, path) ==
  IF value.v["length"] # s.heap[target]["length"]
  THEN LET d == GetDiffObject(s.heap, path) IN
       [s EXCEPT !.heap = [d.heap EXCEPT ![d.obj] =
          [key \in Keys |-> IF ParseInt(key) >= value.v["length"].v
                            THEN Undef ELSE @[key]]]]
  ELSE s

\* "Handle array index updates when length was previously set", on the
\* fragment diff
AdvanceLengthNever(diff, prop) == diff
AdvanceLength(diff, prop) ==
  IF diff["length"].t = "num"
  THEN LET index == ParseInt(prop) IN
       IF index # -1 /\ diff["length"].v <= index
       THEN [diff EXCEPT !["length"] = Num(index + 1)]
       ELSE diff
  ELSE diff

\* #recordChange(target, prop, value, path): the clone goes both into the
\* diff and into the tree
RecordChange(s, target, prop, value, path) ==
  LET d == GetDiffObject(s.heap, path)
      h0 == [d.heap EXCEPT ![d.obj] = AdvanceLength(@, prop)]
      clonedValue == DeepClone(h0, value)
      h1 == [clonedValue.heap EXCEPT ![d.obj][prop] = clonedValue.val]
  IN ScheduleEmit([s EXCEPT !.heap = [h1 EXCEPT ![target] =
                                        ArraySet(@, prop, clonedValue.val)]])

\* "Handle nested nulls": delete rawSource[prop][key] for the null entries
StripNulls(value) ==
  IF value.t = "obj"
  THEN Lit([k \in Keys |-> IF value.v[k].t = "null" THEN Undef ELSE value.v[k]])
  ELSE value

\* the source argument as overwrite leaves it: "Handle nested nulls" runs
\* `delete rawSource[prop][key]` on the caller's own nested object
RECURSIVE SourceAfter(_, _, _)
SourceAfter(h, rawTarget, rawSource) ==
  Lit([prop \in Keys |->
         LET sv == rawSource.v[prop]
             tv == h[rawTarget][prop]
         IN IF isObjectOrArray(tv) /\ isObjectOrArray(sv)
            THEN SourceAfter(h, tv.v, sv)
            ELSE IF isObjectOrArray(sv) /\ StrictNotEqual(tv, sv)
            THEN StripNulls(sv)
            ELSE sv])

EmitIfChangedNever(r) == r.st
\* "if (hasChanges) this.#eventEmitter.scheduleEmit()"
EmitIfChanged(r) == IF r.hasChanges THEN ScheduleEmit(r.st) ELSE r.st

\* overwrite(target, source, path); r = [st, hasChanges]
RECURSIVE Overwrite(_, _, _, _), OverwriteProps(_, _, _, _, _)
\* the loop "for (const prop in rawSource)"
OverwriteProps(r, rawTarget, rawSource, path, ks) ==
  IF ks = <<>> THEN r
  ELSE
    LET prop == Head(ks)
        sv == rawSource.v[prop]
        h == r.st.heap
        tv == h[rawTarget][prop]
        next ==
          IF sv.t = "undef" THEN r
          ELSE IF sv.t = "null"
          THEN [r EXCEPT !.st.heap[rawTarget][prop] = Undef]
          ELSE IF isObjectOrArray(tv) /\ isObjectOrArray(sv)
          THEN [r EXCEPT !.st = Overwrite(r.st, tv.v, sv, Append(path, prop))]
          ELSE IF StrictNotEqual(tv, sv)
          THEN LET d == GetDiffObject(h, path)
                   clonedValue == DeepClone(d.heap, StripNulls(sv))
                   h1 == [clonedValue.heap EXCEPT ![d.obj][prop] = clonedValue.val]
               IN [st |-> [r.st EXCEPT !.heap = [h1 EXCEPT ![rawTarget] =
                                        ArraySet(@, prop, clonedValue.val)]],
                   hasChanges |-> TRUE]
          ELSE r
    IN OverwriteProps(next, rawTarget, rawSource, path, Tail(ks))

\* the loop "Delete missing properties" (overwrite mode only)
RECURSIVE DeleteMissing(_, _, _, _, _)
DeleteMissing(r, rawTarget, rawSource, path, ks) ==
  IF ks = <<>> THEN r
  ELSE
    LET prop == Head(ks)
        h == r.st.heap
        next ==
          IF h[rawTarget][prop].t # "undef" /\ rawSource.v[prop].t \in {"null", "undef"}
          THEN LET d == GetDiffObject(h, path) IN
               [st |-> [r.st EXCEPT !.heap = [d.heap EXCEPT ![d.obj][prop] = Null,
                                                            ![rawTarget][prop] = Undef]],
                hasChanges |-> TRUE]
          ELSE r
    IN DeleteMissing(next, rawTarget, rawSource, path, Tail(ks))

Overwrite(s, rawTarget, rawSource, path) ==
  LET \* "Track array length changes"
      r0 == IF /\ IsArray(s.heap[rawTarget]) /\ IsArray(rawSource.v)
               /\ s.heap[rawTarget]["length"] # rawSource.v["length"]
            THEN LET d == GetDiffObject(s.heap, path) IN
                 [st |-> [s EXCEPT !.heap = [d.heap EXCEPT
                            ![d.obj]["length"] = rawSource.v["length"]]],
                  hasChanges |-> TRUE]
            ELSE [st |-> s, hasChanges |-> FALSE]
      r1 == OverwriteProps(r0, rawTarget, rawSource, path, ForIn(rawSource.v))
      \* "Delete missing properties (unless in patch mode or target is array)"
      missing == IF ~s.patchMode /\ ~IsArray(s.heap[rawTarget])
                 THEN ForIn(s.heap[rawTarget])
                 ELSE <<>>
  IN EmitIfChanged(DeleteMissing(r1, rawTarget, rawSource, path, missing))

\* the test that opens overwrite: !source || typeof source !== 'object'
SourceThrows(source) == source.t # "obj"

\* patch(target, source): when overwrite throws, the assignment that
\* resets #patchMode is not reached
Patch(s, target, source) ==
  IF SourceThrows(source)
  THEN [s EXCEPT !.patchMode = TRUE]
  ELSE LET s1 == Overwrite([s EXCEPT !.patchMode = TRUE], target, source, RootPath)
       IN [s1 EXCEPT !.patchMode = FALSE]

\* the set trap of the proxy of `target` created at `path`
SetTrap(s, target, path, prop, value) ==
  LET currentValue == s.heap[target][prop]
      currentIsObject == isObjectOrArray(currentValue)
      valueIsObject == isObjectOrArray(value)
      valueIsArray == value.t = "obj" /\ IsArray(value.v)
      \* "Handle array length changes"
      s1 == IF IsArray(s.heap[target]) /\ valueIsArray /\ prop = "length"
            THEN HandleArrayLengthChange(s, target, value, path)
            ELSE s
      isArrayReplacement ==
        currentValue.t = "ref" /\ IsArray(s.heap[currentValue.v]) /\ valueIsArray
  IN IF currentIsObject /\ valueIsObject /\ ~isArrayReplacement
     THEN Overwrite(s1, currentValue.v, value, Append(path, prop))
     ELSE IF StrictNotEqual(currentValue, value)
     THEN RecordChange(s1, target, prop, value, path)
     ELSE s1

\* the deleteProperty trap
DeletePropertyTrap(s, target, path, prop) ==
  IF s.heap[target][prop].t # "undef"
  THEN LET d == GetDiffObject(s.heap, path) IN
       ScheduleEmit([s EXCEPT !.heap = [d.heap EXCEPT ![d.obj][prop] = Null,
                                                      ![target][prop] = Undef]])
  ELSE s

\* ----------------------------------------------------------------- history
Min(x, y) == IF x < y THEN x ELSE y

\* every entry of fragment d describes the tree object t
RECURSIVE Agrees(_, _, _)
Agrees(h, d, t) ==
  \A k \in ObjectKeys(h[d]) :
    LET dv == h[d][k]
        tv == h[t][k]
    IN CASE dv.t = "null" -> tv.t = "undef"
         [] dv.t = "num" -> tv = dv
         [] dv.t = "ref" -> tv.t = "ref" /\ (tv.v = dv.v \/ Agrees(h, dv.v, tv.v))
         [] OTHER -> FALSE

\* the last delivery; forgotten at the next operation
NoDeliv == [some |-> FALSE, via |-> "none", gap |-> -1, mutGap |-> -1,
            batch |-> {}, batchOk |-> FALSE, agrees |-> TRUE]

HistInit ==
  [op |-> "init",       \* the last operation (a callback that fires is not one)
   rec |-> FALSE,       \* it recorded a change in the pending diff
   pend |-> FALSE,      \* the pending diff was non-empty when it returned
   delivs |-> 0,        \* deliveries since that operation (counted up to 2)
   mutT |-> -1,         \* the clock at the most recent recorded mutation
   batch |-> {},        \* entries written by a batch of root writes
   batchOk |-> TRUE,    \* all changes since the last hand-out are such a batch
   pausedKeys |-> {},   \* root keys recorded while paused, not yet handed out
   fresh |-> {},        \* root keys recorded since the last hand-out
   ever |-> FALSE,      \* a delivery has happened
   handed |-> {},       \* the fragment being delivered, as it was consumed
   blockKeys |-> {},    \* root keys recorded by the callback of silent so far
   ret |-> "none",      \* how the last operation ended: "diff", "throw", "none"
   exact |-> TRUE,      \* the diff silent handed back is the callback's changes
   observed |-> TRUE,   \* the last merge left what the direct writes would leave
   merged |-> TRUE,     \* the last merge left the tree the source asks for
   tomb |-> TRUE,       \* the last delete left the tombstone it had to leave
   caught |-> 0,        \* position of the listener that threw in the last step
   regs |-> <<>>,       \* the registered listener functions, oldest first
   arg |-> -1,          \* the index or length the last array operation was given
   was |-> -1,          \* the length the pending diff recorded before that write
   kept |-> TRUE,       \* the last object assignment merged into the child in place
   ids |-> <<>>,        \* for each listener still in the list being served, its
                        \* position in the list when the delivery began
   seen |-> <<>>,       \* those positions of the listeners served so far
   once |-> TRUE,       \* the last delivery served each remaining listener once
   intact |-> TRUE,     \* the last merge left its source argument as it was
   deliv |-> NoDeliv]

\* root keys of the pending diff whose entry differs between heaps h1 and h2
Changed(h1, h2) ==
  {k \in Keys : Flat(h2, h2[masterDiff][k], <<k>>) # Flat(h1, h1[masterDiff][k], <<k>>)}

\* history after a mutating operation `name` that turned the heap into h2;
\* entry is the written entry set when the operation is a root write
HistMut(name, h2, key, entry) ==
  LET changed == Changed(heap, h2)
      rec == changed # {}
      plain == pc = "idle" /\ ~paused /\ name = "write"
      seen == {e[1][1] : e \in hist.batch}
      ok == IF rec THEN hist.batchOk /\ plain /\ key \notin seen ELSE hist.batchOk
  IN [hist EXCEPT
        !.op = name, !.rec = rec, !.delivs = 0, !.deliv = NoDeliv,
        !.ret = "none", !.exact = TRUE, !.observed = TRUE, !.merged = TRUE,
        !.tomb = TRUE, !.caught = 0, !.arg = -1, !.was = -1, !.kept = TRUE,
        !.intact = TRUE,
        !.blockKeys = IF pc = "silent" THEN @ \cup changed ELSE @,
        !.pend = ObjectKeys(h2[masterDiff]) # {},
        !.mutT = IF rec THEN now ELSE @,
        !.fresh = @ \cup changed,
        !.pausedKeys = IF paused THEN @ \cup changed ELSE @,
        !.batch = IF ~ok THEN {} ELSE IF rec THEN @ \cup entry ELSE @,
        !.batchOk = ok]

\* history after an operation that records nothing
HistOp(name) ==
  LET ok == hist.batchOk /\ (name \in {"pause", "resume", "silent"} => hist.batch = {})
  IN [hist EXCEPT !.op = name, !.rec = FALSE, !.delivs = 0, !.deliv = NoDeliv,
                  !.ret = "none", !.exact = TRUE, !.blockKeys = {},
                  !.observed = TRUE, !.merged = TRUE, !.tomb = TRUE,
                  !.caught = 0, !.arg = -1, !.was = -1, !.kept = TRUE,
                  !.intact = TRUE,
                  !.pend = hasPendingChanges,
                  !.batch = IF ok THEN @ ELSE {}, !.batchOk = ok]

\* history at the consume of a delivery
HistDeliver(hh, via) ==
  [hh EXCEPT
     !.deliv = [some |-> TRUE, via |-> via,
                gap |-> IF hh.ever THEN now - lastEmitTime ELSE -1,
                mutGap |-> IF hh.mutT >= 0 THEN now - hh.mutT ELSE -1,
                batch |-> hh.batch, batchOk |-> hh.batchOk,
                agrees |-> Agrees(heap, masterDiff, RootAddr)],
     !.delivs = Min(@ + 1, 2),
     !.ever = TRUE, !.caught = 0,
     !.ids = [i \in DOMAIN listeners |-> i], !.seen = <<>>,
     !.handed = IF listeners # <<>> THEN Flat(heap, Ref(masterDiff), <<>>) ELSE {},
     !.fresh = {}, !.pausedKeys = {}, !.batch = {}, !.batchOk = TRUE]

\* ----------------------------------------------------------------- actions
\* The addresses reachable from the roots, in the order of a traversal that
\* starts at the roots: garbage disappears and an object's address is its
\* position in that order.
Children(h, a) ==
  LET refs == SelectSeq(KeyOrder, LAMBDA k : h[a][k].t = "ref")
  IN [i \in 1..Len(refs) |-> h[a][refs[i]].v]
Range(f) == {f[i] : i \in DOMAIN f}
RECURSIVE Traverse(_, _, _)
Traverse(h, todo, done) ==
  IF todo = <<>> THEN done
  ELSE IF Head(todo) \in Range(done) \/ Head(todo) = 0
       THEN Traverse(h, Tail(todo), done)
       ELSE Traverse(h, Tail(todo) \o Children(h, Head(todo)), Append(done, Head(todo)))
Position(ord, a) == IF a = 0 THEN 0 ELSE CHOOSE i \in DOMAIN ord : ord[i] = a
Collect(h, ord) ==
  [i \in DOMAIN ord |->
     [k \in Keys |-> IF h[ord[i]][k].t = "ref"
                     THEN Ref(Position(ord, h[ord[i]][k].v))
                     ELSE h[ord[i]][k]]]

\* the state after a synchronous step that left s, with the given pending
\* fragment and delivered fragment
CommitWith(s, master, delivered, target) ==
  LET ord == Traverse(s.heap, <<RootAddr, master, delivered, target>>, <<>>) IN
  /\ heap' = Collect(s.heap, ord)
  /\ masterDiff' = Position(ord, master)
  /\ emitDiff' = Position(ord, delivered)
  /\ mirror' = Position(ord, target)
  /\ immediateId' = s.immediateId
  /\ timeoutId' = s.timeoutId
  /\ immediates' = s.immediates
  /\ timers' = s.timers
  /\ patchMode' = s.patchMode
  /\ paused' = s.paused

Commit(s, master, delivered) == CommitWith(s, master, delivered, mirror)

\* new LazyWatch({a: 1, u: {n: 1}}, {throttle, debounce})
InitWith(th, db) ==
  /\ heap = <<[EmptyObj EXCEPT !["a"] = Num(1), !["u"] = Ref(3)],
              EmptyObj,
              [EmptyObj EXCEPT !["n"] = Num(1)]>>
  /\ masterDiff = 2
  /\ listeners = <<>>
  /\ immediateId = NoHandle
  /\ timeoutId = NoHandle
  /\ throttle = th
  /\ debounce = db
  /\ lastEmitTime = 0
  /\ paused = FALSE
  /\ patchMode = FALSE
  /\ immediates = {}
  /\ timers = {}
  /\ now = 0
  /\ pc = "idle"
  /\ emitIdx = 0
  /\ emitDiff = 0
  /\ emitRet = "idle"
  /\ emitList = <<>>
  /\ disposed = FALSE
  /\ mirror = 0
  /\ hist = HistInit

\* construction with the default options
Init == InitWith(0, 0)
\* construction with throttle and/or debounce
InitTimed == \E th \in {0, ThrottleMs}, db \in {0, DebounceMs} : InitWith(th, db)
\* construction with or without debounce
InitDebounce == \E db \in {0, DebounceMs} : InitWith(0, db)

\* the code the caller runs: at top level or inside a silent block
InCaller == pc \in {"idle", "silent"}
ChildTarget == heap[RootAddr]["u"]

CheckDisposedNever == FALSE
\* #checkDisposed throws
CheckDisposed == disposed

\* history of a call that threw
HistThrow(name) == [HistOp(name) EXCEPT !.ret = "throw"]

\* the wrappers a caller holds: the root wrapper and the wrapper of watched.u
Wrappers == {"root", "u"}
\* ProxyHandler.getProxyPath(watched): the path the wrapper was created at
GetProxyPath(w) == IF w = "root" THEN RootPath ELSE ChildPath

\* LazyWatch.on(watched, listener) on the root wrapper or on watched.u
On(path) ==
  /\ pc = "idle"
  /\ ~CheckDisposed
  /\ Len(listeners) < MaxListeners
  /\ path = ChildPath => ChildTarget.t = "ref"
  /\ listeners' = Append(listeners, [listener |-> Len(listeners) + 1, path |-> path])
  /\ hist' = hist
  /\ UNCHANGED <<heap, masterDiff, immediateId, timeoutId, throttle, debounce,
                 lastEmitTime, paused, patchMode, immediates, timers, now, pc,
                 emitIdx, emitDiff, emitRet, emitList, disposed, mirror>>

Unmoved == UNCHANGED <<listeners, throttle, debounce, lastEmitTime, now,
                       pc, emitIdx, emitRet, emitList, disposed>>

\* what the assignment of an object to a key that holds an object had to
\* leave in s: the same container under the key, holding what the value
\* holds, and for every key of the container the assignment changed an
\* entry in the pending fragment at the container's path (a tombstone for a
\* key it removed, the new value otherwise)
Assigned(s, prop, value) ==
  LET child == heap[RootAddr][prop].v
      frag == FilterDiffByPath(s.heap, Ref(masterDiff), <<prop>>)
      changed == {k \in Keys : Flat(s.heap, s.heap[child][k], <<>>)
                                 # Flat(heap, heap[child][k], <<>>)}
  IN /\ s.heap[RootAddr][prop] = Ref(child)
     /\ Flat(s.heap, Ref(child), <<>>) = FlatLit(value, <<>>)
     /\ changed # {} =>
          /\ frag.t = "ref"
          /\ \A k \in changed :
               IF s.heap[child][k] = Undef THEN s.heap[frag.v][k] = Null
               ELSE Flat(s.heap, s.heap[frag.v][k], <<>>)
                      = Flat(s.heap, s.heap[child][k], <<>>)

\* watched[prop] = value
Write(prop, value) ==
  /\ InCaller
  /\ LET s == SetTrap(Cur, RootAddr, RootPath, prop, value) IN
       /\ Commit(s, masterDiff, 0)
       /\ hist' = [HistMut("write", s.heap, prop, FlatLit(value, <<prop>>)) EXCEPT
                     !.kept = (heap[RootAddr][prop].t = "ref" /\ value.t = "obj")
                                => Assigned(s, prop, value)]
  /\ Unmoved

\* watched.u[prop] = value
WriteChild(prop, value) ==
  /\ InCaller
  /\ ChildTarget.t = "ref"
  /\ LET s == SetTrap(Cur, ChildTarget.v, ChildPath, prop, value) IN
       /\ Commit(s, masterDiff, 0)
       /\ hist' = HistMut("writeChild", s.heap, "u", {})
  /\ Unmoved

\* what a delete of prop in the container target at path had to leave in s:
\* for a present key a tombstone in the pending fragment of the container,
\* the key gone from the tree and (unless paused) a callback outstanding;
\* for an absent key nothing new
Tombstoned(s, target, path, prop) ==
  LET frag == FilterDiffByPath(s.heap, Ref(masterDiff), path) IN
  IF heap[target][prop] # Undef
  THEN /\ frag.t = "ref" /\ s.heap[frag.v][prop] = Null
       /\ s.heap[target][prop] = Undef
       /\ ~paused => (s.immediates # {} \/ s.timers # {})
  ELSE /\ Flat(s.heap, Ref(masterDiff), <<>>) = Flat(heap, Ref(masterDiff), <<>>)
       /\ Flat(s.heap, Ref(RootAddr), <<>>) = Flat(heap, Ref(RootAddr), <<>>)
       /\ s.immediates = immediates /\ s.timers = timers

\* delete watched[prop]
Delete(prop) ==
  /\ InCaller
  /\ LET s == DeletePropertyTrap(Cur, RootAddr, RootPath, prop) IN
       /\ Commit(s, masterDiff, 0)
       /\ hist' = [HistMut("delete", s.heap, prop, {}) EXCEPT
                     !.tomb = Tombstoned(s, RootAddr, RootPath, prop)]
  /\ Unmoved

\* delete watched.u[prop]
DeleteChild(prop) ==
  /\ InCaller
  /\ ChildTarget.t = "ref"
  /\ LET s == DeletePropertyTrap(Cur, ChildTarget.v, ChildPath, prop) IN
       /\ Commit(s, masterDiff, 0)
       /\ hist' = [HistMut("deleteChild", s.heap, "u", {}) EXCEPT
                     !.tomb = Tombstoned(s, ChildTarget.v, ChildPath, prop)]
  /\ Unmoved

\* The direct writes and deletes that ask for the same changes as a merge
\* of source into the container target at path: a delete for a null, the
\* same for the entries of a nested object, an assignment otherwise, and in
\* overwrite mode a delete for every key the source does not hold.
RECURSIVE DirectWrites(_, _, _, _, _, _), DirectDeletes(_, _, _, _, _)
DirectDeletes(s, target, path, source, ks) ==
  IF ks = <<>> THEN s
  ELSE LET prop == Head(ks)
           next == IF s.heap[target][prop].t # "undef"
                      /\ source.v[prop].t \in {"null", "undef"}
                   THEN DeletePropertyTrap(s, target, path, prop)
                   ELSE s
       IN DirectDeletes(next, target, path, source, Tail(ks))
DirectWrites(s, target, path, source, over, ks) ==
  IF ks = <<>>
  THEN IF over THEN DirectDeletes(s, target, path, source, ForIn(s.heap[target]))
       ELSE s
  ELSE LET prop == Head(ks)
           sv == source.v[prop]
           tv == s.heap[target][prop]
           next == IF sv.t = "undef" THEN s
                   ELSE IF sv.t = "null"
                   THEN DeletePropertyTrap(s, target, path, prop)
                   ELSE IF sv.t = "obj" /\ tv.t = "ref"
                   THEN DirectWrites(s, tv.v, Append(path, prop), sv, over, ForIn(sv.v))
                   ELSE SetTrap(s, target, path, prop, sv)
       IN DirectWrites(next, target, path, source, over, Tail(ks))

\* the merge left the pending diff, the tree and the scheduler as the
\* direct writes would
SameOutcome(s, d) ==
  /\ Flat(s.heap, Ref(masterDiff), <<>>) = Flat(d.heap, Ref(masterDiff), <<>>)
  /\ Flat(s.heap, Ref(RootAddr), <<>>) = Flat(d.heap, Ref(RootAddr), <<>>)
  /\ (s.immediates = {}) = (d.immediates = {})
  /\ (s.timers = {}) = (d.timers = {})
Observed(s, target, path, source, over) ==
  SameOutcome(s, DirectWrites(Cur, target, path, source, over, ForIn(source.v)))

IsPrefix(p, q) == Len(p) <= Len(q) /\ SubSeq(q, 1, Len(p)) = p
NullFree(source) == \A e \in FlatLit(source, <<>>) : e[2] # "null"
\* the tree the source asks for: in overwrite mode the source itself, in
\* patch mode the source's entries over the previous tree
Merged(h1, h2, target, source, over) ==
  LET want == FlatLit(source, <<>>)
      was == Flat(h1, Ref(target), <<>>)
      is == Flat(h2, Ref(target), <<>>)
      covered(path) == \E f \in want : f[1] = path \/ (f[2] # "obj" /\ IsPrefix(f[1], path))
  IN NullFree(source) =>
       IF over THEN is = want
       ELSE want \subseteq is /\ \A e \in was : e \in is \/ covered(e[1])

HistMerge(name, s, target, path, source, over) ==
  [HistMut(name, s.heap, "a", {}) EXCEPT
     !.observed = Observed(s, target, path, source, over),
     !.merged = Merged(heap, s.heap, target, source, over),
     !.intact = SourceAfter(heap, target, source) = source,
     !.arg = IF /\ IsArray(heap[target]) /\ IsArray(source.v)
                /\ heap[target]["length"] # source.v["length"]
             THEN source.v["length"].v ELSE -1]

\* LazyWatch.patch(watched, source)
PatchOp(source) ==
  /\ pc = "idle"
  /\ ~CheckDisposed
  /\ LET s == Patch(Cur, RootAddr, source) IN
       /\ Commit(s, masterDiff, 0)
       /\ hist' = IF SourceThrows(source) THEN HistThrow("patch")
                  ELSE HistMerge("patch", s, RootAddr, RootPath, source, FALSE)
  /\ Unmoved

\* LazyWatch.overwrite(watched, source)
OverwriteOp(source) ==
  /\ pc = "idle"
  /\ ~CheckDisposed
  /\ LET s == IF SourceThrows(source) THEN Cur
              ELSE Overwrite(Cur, RootAddr, source, RootPath)
     IN
       /\ Commit(s, masterDiff, 0)
       /\ hist' = IF SourceThrows(source) THEN HistThrow("overwrite")
                  ELSE HistMerge("overwrite", s, RootAddr, RootPath, source, TRUE)
  /\ Unmoved

\* LazyWatch.patch(watched.u, source): the handler is given no path
PatchChild(source) ==
  /\ pc = "idle"
  /\ ~CheckDisposed
  /\ ChildTarget.t = "ref"
  /\ LET s == Patch(Cur, ChildTarget.v, source) IN
       /\ Commit(s, masterDiff, 0)
       /\ hist' = HistMerge("patchChild", s, ChildTarget.v, ChildPath, source, FALSE)
  /\ Unmoved

\* LazyWatch.overwrite(watched.u, source): the path defaults to []
OverwriteChild(source) ==
  /\ pc = "idle"
  /\ ~CheckDisposed
  /\ ChildTarget.t = "ref"
  /\ LET s == Overwrite(Cur, ChildTarget.v, source, RootPath) IN
       /\ Commit(s, masterDiff, 0)
       /\ hist' = HistMerge("overwriteChild", s, ChildTarget.v, ChildPath, source, TRUE)
  /\ Unmoved

PauseNoClear(s) == [s EXCEPT !.paused = TRUE]
\* EventEmitter.pause
EmitterPause(s) == ClearPending([s EXCEPT !.paused = TRUE])

EmitterResumeNoSchedule(s) == [s EXCEPT !.paused = FALSE]
\* EventEmitter.resume
EmitterResume(s) ==
  LET s1 == [s EXCEPT !.paused = FALSE] IN
  IF ObjectKeys(s.heap[masterDiff]) # {} THEN ScheduleEmit(s1) ELSE s1

\* LazyWatch.pause(watched)
Pause ==
  /\ pc = "idle"
  /\ ~CheckDisposed
  /\ Commit(EmitterPause(Cur), masterDiff, 0)
  /\ hist' = HistOp("pause")
  /\ Unmoved

\* LazyWatch.resume(watched)
Resume ==
  /\ pc = "idle"
  /\ ~CheckDisposed
  /\ Commit(EmitterResume(Cur), masterDiff, 0)
  /\ hist' = HistOp("resume")
  /\ Unmoved

\* #emit, entered with the scheduler state s; ret is where it returns to
Emit(s, via, ret, hh) ==
  IF ObjectKeys(s.heap[masterDiff]) = {}
  THEN /\ Commit(s, masterDiff, 0)
       /\ pc' = ret
       /\ hist' = hh
       /\ UNCHANGED <<lastEmitTime, emitIdx, emitRet, emitList>>
  ELSE LET c == ConsumeDiff(s.heap)
           more == listeners # <<>>
       IN /\ lastEmitTime' = now
          /\ Commit([s EXCEPT !.heap = c.heap], c.master, IF more THEN c.diff ELSE 0)
          /\ pc' = IF more THEN "emit" ELSE ret
          /\ emitIdx' = IF more THEN 1 ELSE 0
          /\ emitRet' = ret
          /\ emitList' = IF more THEN listeners ELSE <<>>
          /\ hist' = HistDeliver(hh, via)

\* the event loop runs an outstanding setImmediate callback
FireImmediate(x) ==
  /\ pc = "idle"
  /\ x \in immediates
  /\ Emit([Cur EXCEPT !.immediates = @ \ {x}], "imm", "idle", hist)
  /\ UNCHANGED <<listeners, throttle, debounce, now, disposed>>

\* the event loop runs a timer that is due
FireTimer(tm) ==
  /\ pc = "idle"
  /\ tm \in timers
  /\ now >= tm.due
  /\ Emit([Cur EXCEPT !.timers = @ \ {tm}], "timer", "idle", hist)
  /\ UNCHANGED <<listeners, throttle, debounce, now, disposed>>

\* one iteration of the forEach of #emit: the listener at emitIdx
FilteredDiff == FilterDiffByPath(heap, Ref(emitDiff), emitList[emitIdx].path)
Invoked == pc = "emit" /\ Relevant(heap, FilteredDiff)
LastListener == emitIdx >= Len(emitList)
\* the forEach moves on after the listener ran with result state s and
\* pending fragment master
AdvanceWith(s, master) ==
  /\ Commit(s, master, IF LastListener THEN 0 ELSE emitDiff)
  /\ pc' = IF LastListener THEN emitRet ELSE "emit"
  /\ emitIdx' = IF LastListener THEN 0 ELSE emitIdx + 1
  /\ emitList' = IF LastListener THEN <<>> ELSE emitList
  /\ UNCHANGED <<throttle, debounce, lastEmitTime, now, emitRet>>
Advance(s) == AdvanceWith(s, masterDiff)
\* history after the listener at emitIdx was served and left the list ls,
\* whose listeners began the delivery at the positions ids
HistServed(hh, ls, ids) ==
  LET seen == Append(hist.seen, hist.ids[emitIdx])
      last == emitIdx >= Len(ls)
  IN [hh EXCEPT
        !.handed = IF last THEN {} ELSE @, !.caught = 0,
        !.once = IF last
                 THEN \A i \in DOMAIN ids :
                        Cardinality({j \in DOMAIN seen : seen[j] = ids[i]}) = 1
                 ELSE @,
        !.seen = IF last THEN <<>> ELSE seen,
        !.ids = IF last THEN <<>> ELSE ids]
HistListener(hh) == HistServed(hh, emitList, hist.ids)

\* the listener is skipped (nothing under its path) or returns without
\* touching the tree
ListenerReturn ==
  /\ pc = "emit"
  /\ Advance(Cur)
  /\ hist' = HistListener(hist)
  /\ UNCHANGED <<listeners, disposed>>

ListenerOutcomeNoCatch(threw) == IF threw THEN "abort" ELSE "next"
\* try { ... listener(filteredDiff) } catch (e) { console.error(...) }: the
\* forEach goes on whether the listener threw or not
ListenerOutcome(threw) == "next"

\* the listener throws
ListenerThrow ==
  /\ Invoked
  /\ IF ListenerOutcome(TRUE) = "next"
     THEN Advance(Cur)
     ELSE /\ Commit(Cur, masterDiff, 0)
          /\ pc' = emitRet
          /\ emitIdx' = 0
          /\ emitList' = <<>>
          /\ UNCHANGED <<throttle, debounce, lastEmitTime, now, emitRet>>
  /\ hist' = [HistListener(hist) EXCEPT !.caught = emitIdx]
  /\ UNCHANGED <<listeners, disposed>>

\* the listener assigns watched[prop] = value
ListenerWrite(prop, value) ==
  /\ Invoked
  /\ LET s == SetTrap(Cur, RootAddr, RootPath, prop, value) IN
       /\ Advance(s)
       /\ hist' = HistListener(HistMut("listener", s.heap, prop, {}))
  /\ UNCHANGED <<listeners, disposed>>

\* the listener assigns watched.u[prop] = value
ListenerWriteChild(prop, value) ==
  /\ Invoked
  /\ ChildTarget.t = "ref"
  /\ LET s == SetTrap(Cur, ChildTarget.v, ChildPath, prop, value) IN
       /\ Advance(s)
       /\ hist' = HistListener(HistMut("listener", s.heap, "u", {}))
  /\ UNCHANGED <<listeners, disposed>>

\* a heap value read as a plain value (what a merge reads of its source)
RECURSIVE ToLit(_, _)
ToLit(h, val) ==
  IF val.t = "ref" THEN Lit([k \in Keys |-> ToLit(h, h[val.v][k])]) ELSE val

\* const target = new LazyWatch(<a copy of watched>);
\* LazyWatch.on(watched, diff => LazyWatch.patch(target, diff))
OnSync ==
  /\ pc = "idle"
  /\ ~CheckDisposed
  /\ mirror = 0 /\ listeners = <<>>
  /\ ~hasPendingChanges
  /\ LET c == DeepClone(heap, ToLit(heap, Ref(RootAddr))) IN
       CommitWith([Cur EXCEPT !.heap = c.heap], masterDiff, 0, c.val.v)
  /\ listeners' = <<[listener |-> 1, path |-> RootPath]>>
  /\ hist' = HistOp("on")
  /\ UNCHANGED <<throttle, debounce, lastEmitTime, now, pc, emitIdx, emitRet,
                 emitList, disposed>>

\* the listener runs LazyWatch.patch(target, diff): the second instance
\* records the merge in its own accumulator and scheduler
ListenerSync ==
  /\ Invoked
  /\ mirror # 0
  /\ LET source == ToLit(heap, FilteredDiff)
         own == [Cur EXCEPT !.heap[masterDiff] = EmptyObj]
         s == Patch(own, mirror, source)
         h == [s.heap EXCEPT ![masterDiff] = heap[masterDiff]]
     IN /\ Advance([Cur EXCEPT !.heap = h])
        /\ hist' = HistListener([hist EXCEPT !.op = "sync"])
  /\ UNCHANGED <<listeners, disposed>>

\* LazyWatch.silent(watched, callback): forceEmit, then the callback starts
SilentBegin ==
  /\ pc = "idle"
  /\ ~CheckDisposed
  /\ Emit(ClearPending(Cur), "force", "silent", HistOp("silent"))
  /\ UNCHANGED <<listeners, throttle, debounce, now, disposed>>

SilentExitNoFinally(h, threw) ==
  IF threw
  THEN [diff |-> 0, heap |-> h, master |-> masterDiff, outcome |-> "throw"]
  ELSE LET c == ConsumeDiff(h) IN
       [diff |-> c.diff, heap |-> c.heap, master |-> c.master, outcome |-> "diff"]
\* the end of silent: try { callback() } finally { diff = consumeDiff() }
\* return diff.  The finally block runs whether or not the callback threw;
\* an exception thrown by the callback then propagates to the caller and
\* `return diff` is not reached.
SilentExit(h, threw) ==
  LET c == ConsumeDiff(h) IN
  [diff |-> c.diff, heap |-> c.heap, master |-> c.master,
   outcome |-> IF threw THEN "throw" ELSE "diff"]

\* history at the end of silent
HistSilent(name, c) ==
  [HistOp(name) EXCEPT
     !.pend = hasPendingChanges,
     !.ret = c.outcome,
     !.exact = /\ ObjectKeys(heap[masterDiff]) = hist.blockKeys
               /\ Agrees(heap, masterDiff, RootAddr),
     !.fresh = IF c.master = masterDiff THEN @ ELSE {},
     !.pausedKeys = IF c.master = masterDiff THEN @ ELSE {},
     !.batch = {}, !.batchOk = c.master # masterDiff]

\* the callback of silent has returned
SilentEnd ==
  /\ pc = "silent"
  /\ LET c == SilentExit(heap, FALSE) IN
       /\ Commit([Cur EXCEPT !.heap = c.heap], c.master, 0)
       /\ hist' = HistSilent("silentEnd", c)
  /\ pc' = "idle"
  /\ UNCHANGED <<listeners, throttle, debounce, lastEmitTime, now, emitIdx, emitRet,
                 emitList, disposed>>

\* the callback of silent has thrown
SilentThrow ==
  /\ pc = "silent"
  /\ LET c == SilentExit(heap, TRUE) IN
       /\ Commit([Cur EXCEPT !.heap = c.heap], c.master, 0)
       /\ hist' = HistSilent("silentThrow", c)
  /\ pc' = "idle"
  /\ UNCHANGED <<listeners, throttle, debounce, lastEmitTime, now, emitIdx, emitRet,
                 emitList, disposed>>

\* LazyWatch.off(watched, listener): findIndex and splice
Off(i) ==
  /\ pc = "idle"
  /\ ~CheckDisposed
  /\ i \in DOMAIN listeners
  /\ listeners' = SubSeq(listeners, 1, i - 1) \o SubSeq(listeners, i + 1, Len(listeners))
  /\ hist' = hist
  /\ UNCHANGED <<heap, masterDiff, immediateId, timeoutId, throttle, debounce,
                 lastEmitTime, paused, patchMode, immediates, timers, now, pc,
                 emitIdx, emitDiff, emitRet, emitList, disposed, mirror>>

Unshift(ls, l) == <<l>> \o ls
\* this.#listeners.push({ listener, path })
Push(ls, l) == Append(ls, l)
\* this.#listeners.splice(index, 1)
Splice(ls, index) == SubSeq(ls, 1, index - 1) \o SubSeq(ls, index + 1, Len(ls))
\* this.#listeners.findIndex(l => l.listener === listener), from 1; 0 for -1
FindIndex(ls, f) ==
  IF \E i \in DOMAIN ls : ls[i].listener = f
  THEN CHOOSE i \in DOMAIN ls :
         ls[i].listener = f /\ \A j \in 1..(i - 1) : ls[j].listener # f
  ELSE 0

\* the listener functions a caller may hold
Fns == 1..MaxFns
\* the registrations in force after removing the oldest one of f
Unregister(regs, f) ==
  IF \E i \in DOMAIN regs : regs[i] = f
  THEN LET i == CHOOSE i \in DOMAIN regs :
                  regs[i] = f /\ \A j \in 1..(i - 1) : regs[j] # f
       IN SubSeq(regs, 1, i - 1) \o SubSeq(regs, i + 1, Len(regs))
  ELSE regs

\* LazyWatch.on(wrapper, f) for a function f the caller holds
OnFn(f, path) ==
  /\ pc = "idle"
  /\ ~CheckDisposed
  /\ Len(listeners) < MaxListeners
  /\ path = ChildPath => ChildTarget.t = "ref"
  /\ listeners' = Push(listeners, [listener |-> f, path |-> path])
  /\ hist' = [hist EXCEPT !.regs = Append(@, f)]
  /\ UNCHANGED <<heap, masterDiff, immediateId, timeoutId, throttle, debounce,
                 lastEmitTime, paused, patchMode, immediates, timers, now, pc,
                 emitIdx, emitDiff, emitRet, emitList, disposed, mirror>>

\* LazyWatch.off(w, f): the wrapper w serves to find the instance, its path
\* is not passed on to EventEmitter.off
OffFn(w, f) ==
  /\ pc = "idle"
  /\ ~CheckDisposed
  /\ w = "u" => ChildTarget.t = "ref"
  /\ LET index == FindIndex(listeners, f) IN
       listeners' = IF index # 0 THEN Splice(listeners, index) ELSE listeners
  /\ hist' = [hist EXCEPT !.regs = Unregister(@, f)]
  /\ UNCHANGED <<heap, masterDiff, immediateId, timeoutId, throttle, debounce,
                 lastEmitTime, paused, patchMode, immediates, timers, now, pc,
                 emitIdx, emitDiff, emitRet, emitList, disposed, mirror>>

\* the listener being invoked calls LazyWatch.off(watched, f): splice takes
\* the registration out of the array the forEach of #emit is iterating
ListenerOff(f) ==
  /\ Invoked
  /\ FindIndex(listeners, f) # 0
  /\ LET index == FindIndex(listeners, f)
         ls == Splice(listeners, index)
         last == emitIdx >= Len(ls)
     IN /\ listeners' = ls
        /\ Commit(Cur, masterDiff, IF last THEN 0 ELSE emitDiff)
        /\ pc' = IF last THEN emitRet ELSE "emit"
        /\ emitIdx' = IF last THEN 0 ELSE emitIdx + 1
        /\ emitList' = IF last THEN <<>> ELSE ls
        /\ hist' = [HistServed(hist, ls, Splice(hist.ids, index)) EXCEPT
                      !.regs = Unregister(@, f)]
  /\ UNCHANGED <<throttle, debounce, lastEmitTime, now, emitRet, disposed>>

\* LazyWatch.isPaused(watched) and LazyWatch.getPendingDiff(watched): reads
IsPaused ==
  /\ InCaller
  /\ ~CheckDisposed
  /\ UNCHANGED vars
GetPendingDiff ==
  /\ InCaller
  /\ ~CheckDisposed
  /\ hist' = [HistOp("getPendingDiff") EXCEPT
                !.blockKeys = hist.blockKeys,
                !.exact = FlatLit(PendingCopy(heap), <<>>) =
                          Flat(heap, Ref(masterDiff), <<>>)]
  /\ UNCHANGED progVars

\* the names of the operations that start with #checkDisposed
ApiOps == {"on", "off", "pause", "resume", "isPaused", "patch", "overwrite",
           "getPendingDiff", "silent"}
\* one of them called on a disposed instance: #checkDisposed throws
ApiThrows(name) ==
  /\ InCaller
  /\ CheckDisposed
  /\ hist' = HistThrow(name)
  /\ UNCHANGED progVars

\* DiffTracker.clear
Clear(h) == LET n == Alloc(h) IN [heap |-> (n :> EmptyObj) @@ h, master |-> n]
\* EventEmitter.dispose: #clearPending; the listener array is replaced by a
\* new empty array (a forEach in progress keeps iterating the old one)
EmitterDispose(s) == ClearPending(s)
\* history of the first dispose
HistDispose == [HistOp("dispose") EXCEPT !.fresh = {}, !.pausedKeys = {}]

\* LazyWatch.dispose(watched) called by the caller
Dispose ==
  /\ InCaller
  /\ IF disposed
     THEN /\ hist' = HistOp("dispose")
          /\ UNCHANGED progVars
     ELSE /\ disposed' = TRUE
          /\ listeners' = <<>>
          /\ LET s == EmitterDispose(Cur)
                 c == Clear(s.heap)
             IN Commit([s EXCEPT !.heap = c.heap], c.master, 0)
          /\ hist' = HistDispose
          /\ UNCHANGED <<throttle, debounce, lastEmitTime, now, pc, emitIdx,
                         emitRet, emitList>>

\* a listener calls LazyWatch.dispose(watched) during a delivery
ListenerDispose ==
  /\ Invoked
  /\ ~disposed
  /\ disposed' = TRUE
  /\ listeners' = <<>>
  /\ LET s == EmitterDispose(Cur)
         c == Clear(s.heap)
     IN AdvanceWith([s EXCEPT !.heap = c.heap], c.master)
  /\ hist' = HistListener(HistDispose)

\* the array literal with the given elements
ArrayOf(elems) ==
  Lit([k \in Keys |-> IF IsIndex(k) /\ ParseInt(k) < Len(elems)
                      THEN Num(elems[ParseInt(k) + 1])
                      ELSE IF k = "length" THEN Num(Len(elems)) ELSE Undef])
ObjectRoot == Lit([EmptyObj EXCEPT !["a"] = Num(1)])
ArrayRoot == ArrayOf(<<1, 2, 1>>)
\* what the caller hands to the constructor
Roots == {Null, Num(1), Str, ObjectRoot, ArrayRoot}
ArraySources == {ArrayOf(<<2>>), ArrayOf(<<1, 1>>)}

\* before `new LazyWatch(original)`: no wrapper exists
InitNew ==
  /\ heap = <<EmptyObj, EmptyObj>>
  /\ masterDiff = 2
  /\ listeners = <<>>
  /\ immediateId = NoHandle
  /\ timeoutId = NoHandle
  /\ throttle = 0
  /\ debounce = 0
  /\ lastEmitTime = 0
  /\ paused = FALSE
  /\ patchMode = FALSE
  /\ immediates = {}
  /\ timers = {}
  /\ now = 0
  /\ pc = "new"
  /\ emitIdx = 0
  /\ emitDiff = 0
  /\ emitRet = "idle"
  /\ emitList = <<>>
  /\ disposed = FALSE
  /\ mirror = 0
  /\ hist = HistInit

\* new LazyWatch(original): the constructor of ProxyHandler throws, or the
\* wrapper of original is returned
New(original) ==
  /\ pc = "new"
  /\ IF ConstructorThrows(original)
     THEN /\ hist' = HistThrow("new")
          /\ UNCHANGED progVars
     ELSE /\ heap' = <<IF original.t = "obj" THEN original.v ELSE EmptyObj, EmptyObj>>
          /\ pc' = "idle"
          /\ hist' = HistOp("new")
          /\ UNCHANGED <<masterDiff, listeners, immediateId, timeoutId, throttle,
                         debounce, lastEmitTime, paused, patchMode, immediates,
                         timers, now, emitIdx, emitDiff, emitRet, emitList,
                         disposed, mirror>>

\* watched[i] = value
WriteIndex(i, value) ==
  /\ InCaller
  /\ LET prop == IndexKeys[i + 1]
         s == SetTrap(Cur, RootAddr, RootPath, prop, value)
     IN /\ Commit(s, masterDiff, 0)
        /\ hist' = [HistMut("writeIndex", s.heap, prop, {}) EXCEPT
                      !.arg = i,
                      !.was = IF heap[masterDiff]["length"].t = "num"
                              THEN heap[masterDiff]["length"].v ELSE -1]
  /\ Unmoved

\* watched.length = n, on a watched array
WriteLength(n) ==
  /\ InCaller
  /\ IsArray(heap[RootAddr])
  /\ LET s == SetTrap(Cur, RootAddr, RootPath, "length", Num(n)) IN
       /\ Commit(s, masterDiff, 0)
       /\ hist' = [HistMut("writeLength", s.heap, "length", {}) EXCEPT
                     !.arg = IF heap[RootAddr]["length"] # Num(n) THEN n ELSE -1]
  /\ Unmoved

\* time passes
Tick ==
  /\ now < MaxTime
  /\ now' = now + 1
  /\ UNCHANGED <<heap, masterDiff, listeners, immediateId, timeoutId, throttle,
                 debounce, lastEmitTime, paused, patchMode, immediates, timers,
                 pc, emitIdx, emitDiff, emitRet, emitList, disposed, mirror, hist>>

SourceA == Lit([EmptyObj EXCEPT !["a"] = Num(2)])
SourceAU == Lit([EmptyObj EXCEPT !["a"] = Num(1), !["u"] = LitN(Num(2))])
Sources == {SourceA, SourceAU}
SourceNull == Lit([EmptyObj EXCEPT !["a"] = Null])
SourceU == Lit([EmptyObj EXCEPT !["u"] = LitN(Num(1))])
MergeSources == {SourceA, SourceAU, SourceNull, SourceU}
\* a source whose nested object holds a null entry
SourceNested == Lit([EmptyObj EXCEPT !["a"] = LitN(Null)])
\* sources that are not containers
BadSources == {Num(1), Null}

\* default options: the clock is never read to decide anything
Next ==
  \/ \E w \in Wrappers : On(GetProxyPath(w))
  \/ \E prop \in RootKeys, n \in Nums : Write(prop, Num(n))
  \/ \E n \in Nums : Write("u", LitN(Num(n)))
  \/ \E prop \in ChildKeys, n \in Nums : WriteChild(prop, Num(n))
  \/ \E prop \in RootKeys : Delete(prop)
  \/ \E prop \in ChildKeys : DeleteChild(prop)
  \/ \E source \in Sources : PatchOp(source)
  \/ \E source \in Sources : OverwriteOp(source)
  \/ Pause
  \/ Resume
  \/ \E x \in immediates : FireImmediate(x)
  \/ ListenerReturn
  \/ \E prop \in RootKeys, n \in Nums : ListenerWrite(prop, Num(n))
  \/ \E prop \in ChildKeys, n \in Nums : ListenerWriteChild(prop, Num(n))
  \/ SilentBegin
  \/ SilentEnd
  \/ SilentThrow

Spec == Init /\ [][Next]_vars

\* throttle / debounce: the scheduler against the clock, on root scalars
NextTimed ==
  \/ On(RootPath)
  \/ \E n \in Nums : Write("a", Num(n))
  \/ Delete("a")
  \/ PatchOp(SourceA)
  \/ OverwriteOp(SourceA)
  \/ Pause
  \/ Resume
  \/ \E x \in immediates : FireImmediate(x)
  \/ \E tm \in timers : FireTimer(tm)
  \/ ListenerReturn
  \/ \E n \in Nums : ListenerWrite("a", Num(n))
  \/ SilentBegin
  \/ SilentEnd
  \/ SilentThrow
  \/ Tick

SpecTimed == InitTimed /\ [][NextTimed]_vars

\* the life cycle: every operation before and after dispose
NextLife ==
  \/ On(GetProxyPath("root"))
  \/ \E i \in 1..MaxListeners : Off(i)
  \/ \E n \in Nums : Write("a", Num(n))
  \/ \E n \in Nums : WriteChild("n", Num(n))
  \/ Delete("a")
  \/ PatchOp(SourceA)
  \/ OverwriteOp(SourceA)
  \/ Pause
  \/ Resume
  \/ IsPaused
  \/ GetPendingDiff
  \/ \E x \in immediates : FireImmediate(x)
  \/ ListenerReturn
  \/ ListenerDispose
  \/ SilentBegin
  \/ SilentEnd
  \/ Dispose
  \/ \E name \in ApiOps : ApiThrows(name)

SpecLife == Init /\ [][NextLife]_vars

\* merges: patch and overwrite on the root wrapper and on watched.u
NextMerge ==
  \/ On(GetProxyPath("root"))
  \/ \E n \in Nums : Write("a", Num(n))
  \/ Write("u", Num(1))
  \/ \E prop \in {"n", "a"} : WriteChild(prop, Num(1))
  \/ \E prop \in RootKeys : Delete(prop)
  \/ \E source \in MergeSources : PatchOp(source)
  \/ \E source \in MergeSources : OverwriteOp(source)
  \/ \E source \in BadSources : PatchOp(source)
  \/ \E source \in BadSources : OverwriteOp(source)
  \/ PatchChild(LitN(Num(2)))
  \/ OverwriteChild(LitN(Num(2)))
  \/ \E x \in immediates : FireImmediate(x)
  \/ ListenerReturn

SpecMerge == Init /\ [][NextMerge]_vars

\* listeners that throw, against the clock
NextIso ==
  \/ \E w \in Wrappers : On(GetProxyPath(w))
  \/ \E n \in Nums : Write("a", Num(n))
  \/ \E n \in Nums : WriteChild("n", Num(n))
  \/ \E x \in immediates : FireImmediate(x)
  \/ \E tm \in timers : FireTimer(tm)
  \/ ListenerReturn
  \/ ListenerThrow
  \/ Tick

SpecIso == InitTimed /\ [][NextIso]_vars

\* listener functions registered and removed in any order
NextOrder ==
  \/ \E f \in Fns, w \in Wrappers : OnFn(f, GetProxyPath(w))
  \/ \E f \in Fns, w \in Wrappers : OffFn(w, f)
  \/ \E n \in Nums : Write("a", Num(n))
  \/ \E n \in Nums : WriteChild("n", Num(n))
  \/ \E x \in immediates : FireImmediate(x)
  \/ ListenerReturn

SpecOrder == Init /\ [][NextOrder]_vars

\* listeners that unsubscribe themselves or one another while they are served
NextOff ==
  \/ \E f \in Fns, w \in Wrappers : OnFn(f, GetProxyPath(w))
  \/ \E n \in Nums : Write("a", Num(n))
  \/ \E n \in Nums : WriteChild("n", Num(n))
  \/ \E x \in immediates : FireImmediate(x)
  \/ ListenerReturn
  \/ \E f \in Fns : ListenerOff(f)

SpecOff == Init /\ [][NextOff]_vars

\* reading the pending diff while it is built, NaN among the values
NextPeek ==
  \/ On(GetProxyPath("root"))
  \/ \E value \in {Num(1), Num(2), NaN} : Write("a", value)
  \/ \E n \in Nums : Write("u", LitN(Num(n)))
  \/ \E n \in Nums : WriteChild("n", Num(n))
  \/ \E prop \in RootKeys : Delete(prop)
  \/ GetPendingDiff
  \/ Pause
  \/ Resume
  \/ \E x \in immediates : FireImmediate(x)
  \/ ListenerReturn

SpecPeek == Init /\ [][NextPeek]_vars

\* a second instance kept in step by patching every delivered diff into it
NextSync ==
  \/ OnSync
  \/ \E n \in Nums : Write("a", Num(n))
  \/ \E value \in {Num(1), LitN(Num(2))} : Write("u", value)
  \/ \E prop \in {"n", "a"}, n \in Nums : WriteChild(prop, Num(n))
  \/ \E prop \in RootKeys : Delete(prop)
  \/ DeleteChild("n")
  \/ \E x \in immediates : FireImmediate(x)
  \/ ListenerSync

SpecSync == Init /\ [][NextSync]_vars

\* construction and a watched array
NextArray ==
  \/ \E original \in Roots : New(original)
  \/ On(RootPath)
  \/ \E i \in 0..(Len(IndexKeys) - 1), x \in Nums : WriteIndex(i, Num(x))
  \/ \E n \in 0..MaxLength : WriteLength(n)
  \/ \E source \in ArraySources : PatchOp(source)
  \/ \E source \in ArraySources : OverwriteOp(source)
  \/ \E x \in immediates : FireImmediate(x)
  \/ ListenerReturn

SpecArray == InitNew /\ [][NextArray]_vars

\* assignments of scalars, objects and arrays over what the key holds,
\* merges that may find nothing to change, against the clock
NextAssign ==
  \/ On(RootPath)
  \/ \E value \in {Num(1), ArrayOf(<<1>>), ArrayOf(<<1, 2>>)} : Write("a", value)
  \/ Write("u", LitN(Num(2)))
  \/ \E source \in {SourceA, SourceNested} : PatchOp(source)
  \/ OverwriteOp(SourceAU)
  \/ \E x \in immediates : FireImmediate(x)
  \/ \E tm \in timers : FireTimer(tm)
  \/ ListenerReturn
  \/ Tick

SpecAssign == InitDebounce /\ [][NextAssign]_vars

\* the caller is still at work: it stops early enough for every timer it
\* may have started to fall due within the time that is modelled
CallerActive == now + ThrottleMs <= MaxTime /\ now + DebounceMs <= MaxTime

\* a caller and listeners that mutate for a while and then stop, and an
\* event loop that goes on
NextFair ==
  \/ CallerActive /\ listeners = <<>> /\ On(RootPath)
  \/ CallerActive /\ Write("a", Num(1))
  \/ CallerActive /\ PatchOp(SourceA)
  \/ CallerActive /\ Pause
  \/ CallerActive /\ Resume
  \/ CallerActive /\ SilentBegin
  \/ CallerActive /\ ListenerWrite("a", Num(1))
  \/ \E x \in immediates : FireImmediate(x)
  \/ \E tm \in timers : FireTimer(tm)
  \/ ListenerReturn
  \/ SilentEnd
  \/ Tick

\* a step of the event loop or a return from a callback
EventLoop ==
  \/ Tick
  \/ \E x \in immediates : FireImmediate(x)
  \/ \E tm \in timers : FireTimer(tm)
  \/ ListenerReturn
  \/ SilentEnd

\* the event loop does not stop: while time can pass or a callback is
\* outstanding and due or a callback has to return, one of these happens
Fairness == WF_vars(EventLoop)

SpecFair == InitTimed /\ [][NextFair]_vars /\ Fairness

\* -------------------------------------------------------------- properties
Outstanding == Cardinality(immediates) + Cardinality(timers)
PendingKeys == ObjectKeys(heap[masterDiff])
PendingFlat == Flat(heap, Ref(masterDiff), <<>>)
BatchKeys(batch) == {e[1][1] : e \in batch}
MutationOps == {"write", "writeChild", "delete", "deleteChild", "patch", "overwrite"}

\* C1 (batching).  With no throttle and no debounce, after a run of
\* value-changing synchronous root writes to distinct keys on an unpaused
\* instance exactly one immediate callback is outstanding and the pending
\* diff holds every written entry; that callback hands the whole batch to the
\* listeners in one delivery (the first listener, when registered on the
\* root, is invoked with it), and once it has run nothing is pending and no
\* callback is outstanding, so there is no second delivery.
C1_Batching ==
  (throttle = 0 /\ debounce = 0) =>
    /\ (hist.batchOk /\ hist.batch # {} /\ pc = "idle") =>
         /\ Cardinality(immediates) = 1 /\ timers = {}
         /\ hist.batch \subseteq PendingFlat
    /\ (hist.deliv.batchOk /\ hist.deliv.batch # {}) =>
         /\ hist.delivs = 1
         /\ immediates = {} /\ timers = {}
         /\ ~hasPendingChanges
         /\ (pc = "emit" /\ emitIdx = 1) =>
              /\ hist.deliv.batch \subseteq hist.handed
              /\ emitList[1].path = RootPath =>
                   Invoked /\ Flat(heap, FilteredDiff, <<>>) = hist.handed
C1_Witness ==
  /\ pc = "emit" /\ emitIdx = 1 /\ emitList[1].path = RootPath
  /\ hist.deliv.batchOk
  /\ Cardinality(BatchKeys(hist.deliv.batch)) >= 2

\* C2 (pause).  While the instance is paused no callback is outstanding (the
\* one scheduled before pause() is cancelled and mutations schedule none),
\* the root keys recorded while paused are all in the pending diff, no
\* delivery has happened since a write, delete, patch or overwrite made
\* while paused, and the only delivery that can happen is the synchronous
\* one of silent().
C2_Pause ==
  paused =>
    /\ immediates = {} /\ timers = {}
    /\ hist.pausedKeys \subseteq PendingKeys
    /\ hist.op \in MutationOps => hist.delivs = 0
    /\ hist.deliv.some => hist.deliv.via = "force"
C2_Witness ==
  /\ paused /\ pc = "idle"
  /\ hist.op = "overwrite" /\ hist.rec
  /\ hist.pausedKeys # {}
  /\ timeoutId # NoHandle /\ now >= debounce /\ debounce > 0

\* C3 (resume).  After resume() with a non-empty pending diff exactly one
\* callback is outstanding and the pending diff holds every key recorded
\* while paused; when that callback has run there has been exactly one
\* delivery, nothing is pending and no callback is outstanding.  After
\* resume() with an empty pending diff there is no delivery.
C3_Resume ==
  hist.op = "resume" =>
    IF hist.pend
    THEN /\ hist.delivs = 0 =>
              Outstanding = 1 /\ hasPendingChanges /\ hist.pausedKeys \subseteq PendingKeys
         /\ hist.delivs >= 1 =>
              hist.delivs = 1 /\ Outstanding = 0 /\ ~hasPendingChanges
    ELSE hist.delivs = 0
C3_Witness ==
  /\ hist.op = "resume" /\ hist.pend /\ hist.delivs = 1
  /\ hist.deliv.some /\ pc = "idle"

\* C4 (resume flushes).  After resume() with a pending diff the delivery is
\* on the immediate queue, whatever throttle and debounce are.
C4_ResumeBypassesWait ==
  (hist.op = "resume" /\ hist.pend /\ hist.delivs = 0) =>
    Cardinality(immediates) = 1 /\ timers = {}

\* C5 (debounce).  With debounce D > 0: after a mutation recorded on an
\* unpaused instance the only outstanding callback is one timer due D ms
\* after that mutation; a delivery by a scheduled callback is made by a
\* timer, not earlier than D ms after the most recent recorded mutation; it
\* is the only delivery, it leaves nothing pending and no timer, its entries
\* are the current (final) values of the tree, and no key recorded since the
\* previous hand-out is missing from the pending diff.
C5_Debounce ==
  debounce > 0 =>
    /\ (hist.rec /\ ~paused /\ hist.delivs = 0) =>
         /\ immediates = {}
         /\ timers = {[id |-> timeoutId, due |-> hist.mutT + debounce]}
    /\ hist.fresh \subseteq PendingKeys
    /\ (hist.deliv.some /\ hist.deliv.via # "force") =>
         /\ hist.deliv.via = "timer"
         /\ hist.deliv.mutGap >= debounce
         /\ hist.deliv.agrees
         /\ hist.delivs = 1
         /\ timers = {} /\ immediates = {}
         /\ ~hasPendingChanges
C5_Witness ==
  /\ debounce > 0 /\ throttle = 0
  /\ hist.deliv.some /\ hist.deliv.via = "timer"
  /\ hist.deliv.mutGap = debounce
  /\ now > debounce

\* C6 (throttle).  With throttle T > 0 and no debounce a delivery made by a
\* scheduled callback is at least T ms after the previous delivery, and a
\* write or delete recorded T ms or more after the last delivery on an
\* unpaused instance is delivered by the next immediate callback.
C6_Throttle ==
  (throttle > 0 /\ debounce = 0) =>
    /\ (hist.deliv.some /\ hist.deliv.via # "force" /\ hist.deliv.gap >= 0) =>
         hist.deliv.gap >= throttle
    /\ (hist.op \in {"write", "delete"} /\ hist.rec /\ ~paused /\ hist.delivs = 0
        /\ hist.ever /\ hist.mutT - lastEmitTime >= throttle) =>
         Cardinality(immediates) = 1 /\ timers = {}
C6_Witness ==
  /\ throttle > 0 /\ debounce = 0
  /\ hist.deliv.some /\ hist.deliv.via = "imm" /\ hist.deliv.gap >= throttle
  /\ hist.op = "write"

\* C7 (throttle, first change).  With throttle T > 0 the first recorded
\* change of an instance that has delivered nothing yet is scheduled on the
\* immediate queue, whatever the clock shows.
C7_FirstChangeImmediate ==
  (throttle > 0 /\ debounce = 0 /\ ~hist.ever /\ hist.rec /\ ~paused
   /\ hist.delivs = 0 /\ pc = "idle") =>
    Cardinality(immediates) = 1 /\ timers = {}

\* C8 (debounce before throttle).  With debounce D > 0 and throttle T > 0
\* nothing is ever put on the immediate queue, a recorded mutation (the first
\* one included) leaves one timer due D ms later, and a scheduled delivery is
\* made by that timer, D ms or more after the most recent recorded mutation.
C8_DebouncePrecedence ==
  (debounce > 0 /\ throttle > 0) =>
    /\ immediates = {}
    /\ (hist.rec /\ ~paused /\ hist.delivs = 0) =>
         Cardinality(timers) = 1 /\ \A tm \in timers : tm.due = hist.mutT + debounce
    /\ (hist.deliv.some /\ hist.deliv.via # "force") =>
         hist.deliv.via = "timer" /\ hist.deliv.mutGap >= debounce
C8_Witness ==
  /\ debounce > 0 /\ throttle > 0
  /\ hist.deliv.some /\ hist.deliv.via = "timer" /\ hist.deliv.gap = -1
  /\ now - hist.mutT >= throttle

\* C9 (exactly-once hand-out).  Every root key of the pending diff has been
\* recorded since the last hand-out (a delivery or the result of a silent
\* block), and the fragment being delivered is not the pending fragment:
\* what was handed out once is not handed out again.
C9_ExactlyOnce ==
  /\ PendingKeys \subseteq hist.fresh
  /\ pc = "emit" => emitDiff # masterDiff
C9_Witness ==
  /\ hist.op = "silentEnd" /\ hist.pend
  /\ hist.ever
  /\ ~hasPendingChanges

\* C10 (re-entrancy).  While listeners of a delivery remain to be invoked,
\* the fragment they will receive is the fragment as it was consumed: a
\* mutation made by an earlier listener of the same delivery is not in it.
C10_Reentrancy ==
  pc = "emit" => Flat(heap, Ref(emitDiff), <<>>) = hist.handed

\* C11 (silent block).  When silent returns, it hands back a diff whose root
\* keys are exactly the keys recorded by the callback and whose entries
\* describe the tree, the pending diff is empty, and no delivery follows for
\* those changes.
C11_SilentBlock ==
  hist.op = "silentEnd" =>
    /\ hist.ret = "diff"
    /\ hist.exact
    /\ ~hasPendingChanges
    /\ hist.delivs = 0

\* C12 (silent starts clean).  While the callback of silent runs, no timer
\* is left from before the call and every root key of the pending diff has
\* been recorded by the callback itself: the accumulator was empty when the
\* callback started, whatever throttle, debounce and pause state are.
C12_SilentStartsClean ==
  pc = "silent" => PendingKeys \subseteq hist.blockKeys

\* C13 as claimed.  A silent block that throws after making changes still
\* returns the consumed diff to the caller.
C13_ThrowReturnsDiff ==
  hist.op = "silentThrow" =>
    hist.ret = "diff" /\ ~hasPendingChanges /\ hist.delivs = 0

\* C13 (amended).  When the callback of silent throws, the diff accumulated
\* during the block is still consumed (nothing is pending afterwards), the
\* exception propagates to the caller instead of a returned diff, and no
\* delivery follows for those changes.
C13_ThrowConsumes ==
  hist.op = "silentThrow" =>
    hist.ret = "throw" /\ ~hasPendingChanges /\ hist.delivs = 0
C13_Witness ==
  /\ hist.op = "silentThrow" /\ hist.pend
  /\ listeners # <<>> /\ ~paused
  /\ immediateId # NoHandle /\ immediates = {}

\* C14 (disposal).  On a disposed instance every call of on, off, pause,
\* resume, isPaused, patch, overwrite, getPendingDiff or silent throws and
\* leaves the whole program state as it was, a further dispose returns
\* without throwing and without changing anything, and the instance stays
\* disposed.
ApiStep == hist'.op \in ApiOps /\ (hist'.op # hist.op \/ hist'.ret # hist.ret)
DisposeStep == hist'.op = "dispose" /\ hist.op # "dispose"
C14_Disposal ==
  [][disposed =>
       /\ disposed'
       /\ ApiStep => (hist'.ret = "throw" /\ progVars' = progVars)
       /\ DisposeStep => (hist'.ret = "none" /\ progVars' = progVars)]_vars
C14_Witness ==
  /\ disposed
  /\ hist.op = "silent" /\ hist.ret = "throw"
  /\ heap[RootAddr]["a"] # Num(1)

\* C15 (no delivery after dispose).  Once the instance is disposed no
\* listener is invoked, also not the remaining listeners of the delivery
\* during which a listener called dispose.
C15_NoDeliveryAfterDispose ==
  disposed => ~Invoked

\* C16 (post-disposal interception).  On a disposed instance a write or a
\* delete through a wrapper throws and leaves the accumulator empty and the
\* scheduler idle.
C16_TrapsAfterDispose ==
  (disposed /\ hist.op \in {"write", "writeChild", "delete", "deleteChild"}) =>
    /\ hist.ret = "throw"
    /\ ~hasPendingChanges
    /\ immediates = {} /\ timers = {}

MergeOps == {"patch", "overwrite", "patchChild", "overwriteChild"}

\* C17 (merge is observed).  After patch or overwrite, on the root wrapper or
\* on a nested wrapper, the pending diff, the tree and the scheduler are what
\* the equivalent direct writes and deletes (at the path of the container)
\* would have left.
C17_MergeObserved ==
  hist.op \in MergeOps => hist.observed

\* C18 (overwrite versus patch).  For a source without null values: after
\* overwrite the target holds exactly the entries of the source, nested
\* objects included; after patch it holds every entry of the source and
\* every previous entry the source does not replace.
C18_OverwriteVersusPatch ==
  hist.op \in MergeOps => hist.merged

\* C19 (round-trip).  A second tree that started equal to the watched tree
\* and into which every delivered diff was patched, in delivery order, is
\* structurally equal to the watched tree whenever nothing is pending.
C19_RoundTrip ==
  (mirror # 0 /\ pc = "idle" /\ ~hasPendingChanges) =>
    Flat(heap, Ref(mirror), <<>>) = Flat(heap, Ref(RootAddr), <<>>)

\* C20 (path-relative delivery).  In every delivery the listener registered
\* on the root wrapper is called with the consumed diff itself, and the
\* listener registered on watched.u is called exactly when the diff holds a
\* non-empty object under "u", and then with that object.
C20_PathRelative ==
  pc = "emit" =>
    LET path == emitList[emitIdx].path
        sub == heap[emitDiff]["u"]
    IN /\ path = RootPath => Invoked /\ FilteredDiff = Ref(emitDiff)
       /\ path = ChildPath =>
            /\ Invoked <=> (sub.t = "ref" /\ ObjectKeys(heap[sub.v]) # {})
            /\ Invoked => FilteredDiff = sub
C20_Witness ==
  /\ Invoked
  /\ Len(emitList) = 2 /\ emitIdx = 2
  /\ emitList[1].path = RootPath /\ emitList[2].path = ChildPath
  /\ heap[emitDiff]["a"] # Undef
  /\ heap[FilteredDiff.v]["n"] = Num(2)

C22_Deletion ==
  hist.op \in {"delete", "deleteChild"} => hist.tomb

\* the step in which the listener at emitIdx throws
ThrowStep == pc = "emit" /\ hist'.caught = emitIdx /\ emitIdx # 0

\* C23 (listener isolation).  When a listener throws, the delivery goes on
\* with the next listener (or ends, after the last one) exactly as after a
\* normal return: the pending diff, the tree, the delivered diff, the
\* outstanding callbacks, the last-delivery time and the listener list are
\* untouched.
C23_ListenerIsolation ==
  [][ThrowStep =>
       /\ pc' = IF LastListener THEN emitRet ELSE "emit"
       /\ emitIdx' = IF LastListener THEN 0 ELSE emitIdx + 1
       /\ ~LastListener =>
            /\ emitList' = emitList
            /\ Flat(heap', Ref(emitDiff'), <<>>) = Flat(heap, Ref(emitDiff), <<>>)
       /\ Flat(heap', Ref(masterDiff'), <<>>) = Flat(heap, Ref(masterDiff), <<>>)
       /\ Flat(heap', Ref(RootAddr), <<>>) = Flat(heap, Ref(RootAddr), <<>>)
       /\ UNCHANGED <<listeners, immediateId, timeoutId, immediates, timers,
                      lastEmitTime, paused, patchMode, disposed, now>>
       /\ hist.ever /\ lastEmitTime <= now]_vars
C23_Witness ==
  /\ hist.caught = 1 /\ Invoked /\ emitIdx = 2
  /\ throttle > 0 /\ now > 0

\* C24 (registration order).  A delivery iterates the listener functions in
\* the order of their registrations in force when it started, one position
\* at a time from the first to the last.
C24_RegistrationOrder ==
  /\ [](pc = "emit" =>
          [i \in DOMAIN emitList |-> emitList[i].listener] = hist.regs)
  /\ [][/\ (pc # "emit" /\ pc' = "emit") => emitIdx' = 1
        /\ (pc = "emit" /\ pc' = "emit") =>
              (emitIdx' = emitIdx + 1 /\ emitList' = emitList)
        /\ (pc = "emit" /\ pc' # "emit") => emitIdx = Len(emitList)]_vars
C24_Witness ==
  /\ Invoked /\ emitIdx = 2
  /\ hist.regs = <<3, 1>>
  /\ emitList[1].path = ChildPath /\ emitList[2].path = RootPath

\* the step that is a call of getPendingDiff (no delivery since)
PeekStep == hist'.op = "getPendingDiff" /\ hist'.delivs = 0 /\ hist' # hist

\* C25 (peek).  getPendingDiff returns a value structurally equal to the
\* pending diff and changes neither the pending diff nor the tree nor the
\* scheduler.
C25_Peek ==
  /\ [](hist.op = "getPendingDiff" => hist.exact)
  /\ [][PeekStep => progVars' = progVars]_vars

\* the step that is a patch or overwrite call that threw
BadStep ==
  /\ hist'.op \in {"patch", "overwrite"} /\ hist'.ret = "throw"
  /\ hist'.delivs = 0 /\ hist' # hist

\* C26 (merge type error is local).  A patch or overwrite that fails on a
\* source that is not a container leaves the instance as it was, and an
\* overwrite that succeeds later (source without null) leaves the tree
\* equal to its source, keys absent from the source deleted.
C26_MergeTypeError ==
  /\ [][BadStep => progVars' = progVars]_vars
  /\ []((hist.op = "overwrite" /\ hist.ret # "throw") => hist.merged)


\* C27 (invalid root): constructing a watcher over null, a number or a
\* string throws and leaves no wrapper; constructing over an object or an
\* array returns the wrapper of that very container.
C27_InvalidRoot ==
  [][\A original \in Roots :
       New(original) =>
         IF original \in {ObjectRoot, ArrayRoot}
         THEN pc' = "idle" /\ hist'.ret # "throw" /\ heap'[RootAddr] = original.v
         ELSE pc' = "new" /\ hist'.ret = "throw" /\ progVars' = progVars]_vars
\* a construction has failed and no wrapper exists
C27_Witness == pc = "new" /\ hist.op = "new" /\ hist.ret = "throw"


\* C28 (array length in a merge): after patch or overwrite has reconciled
\* the watched array with an array source of a different length, the length
\* of the watched array is the length of the source and is the length
\* recorded in the pending diff.
C28_ArrayLengthInMerge ==
  (hist.op \in {"patch", "overwrite"} /\ hist.delivs = 0 /\ hist.arg # -1) =>
    /\ heap[RootAddr]["length"] = Num(hist.arg)
    /\ heap[masterDiff]["length"] = Num(hist.arg)


\* C29 (length write prunes the diff): after a new, different length has
\* been assigned to the watched array, the array has that length and the
\* pending fragment of the array records that length and holds no entry at
\* an index at or beyond it.
C29_LengthWritePrunes ==
  (hist.op = "writeLength" /\ hist.delivs = 0 /\ hist.arg # -1) =>
    /\ heap[RootAddr]["length"] = Num(hist.arg)
    /\ heap[masterDiff]["length"] = Num(hist.arg)
    /\ \A k \in Keys :
         (IsIndex(k) /\ heap[masterDiff][k] # Undef) => ParseInt(k) < hist.arg


\* C30 (length advance): when the pending fragment of the watched array
\* records a length L and a write then changes index i, the recorded length
\* is i + 1 if i >= L and is still L if i < L.
C30_LengthAdvance ==
  (hist.op = "writeIndex" /\ hist.delivs = 0 /\ hist.rec /\ hist.was # -1) =>
    heap[masterDiff]["length"] =
      Num(IF hist.arg >= hist.was THEN hist.arg + 1 ELSE hist.was)
\* a write at an index at or beyond the recorded length has been recorded
C30_Witness ==
  /\ hist.op = "writeIndex" /\ hist.delivs = 0 /\ hist.rec
  /\ hist.was # -1 /\ hist.arg >= hist.was
  /\ heap[masterDiff][IndexKeys[hist.arg + 1]].t = "num"

\* C31: an object assigned to a key that holds an object is merged into the
\* existing child: the key keeps its container (so a read of the key returns
\* the same wrapper before and after), the container then holds what the
\* assigned object holds, and every change the assignment made is in the
\* pending fragment at the child's path, where a listener registered on the
\* child finds it.
C31_AssignMerges == hist.kept

\* the pending diff and the outstanding callbacks are what they were
SameRecord ==
  /\ Flat(heap', Ref(masterDiff'), <<>>) = Flat(heap, Ref(masterDiff), <<>>)
  /\ immediates' = immediates /\ timers' = timers

\* C32: assigning a new array that is element-wise equal to the array a key
\* holds records no entry in the pending diff and schedules no delivery.
C32_EqualArrayElided ==
  [][\A value \in {ArrayOf(<<1>>), ArrayOf(<<1, 2>>)} :
       (/\ heap[RootAddr]["a"].t = "ref"
        /\ Flat(heap, heap[RootAddr]["a"], <<>>) = FlatLit(value, <<>>)
        /\ Write("a", value))
       => SameRecord]_vars

\* the operation now taken asks for nothing the tree does not already hold
NoOpStep ==
  \/ heap[RootAddr]["a"] = Num(1) /\ Write("a", Num(1))
  \/ /\ Flat(heap, heap[RootAddr]["u"], <<>>) = FlatLit(LitN(Num(2)), <<>>)
     /\ Write("u", LitN(Num(2)))
  \/ /\ FlatLit(SourceA, <<>>) \subseteq Flat(heap, Ref(RootAddr), <<>>)
     /\ PatchOp(SourceA)
  \/ /\ FlatLit(SourceAU, <<>>) = Flat(heap, Ref(RootAddr), <<>>)
     /\ OverwriteOp(SourceAU)

\* C33: a write of the value a key already holds, and an object assignment,
\* patch or overwrite whose merge finds no difference, leave the tree, the
\* pending diff and the scheduler as they were: no entry is recorded, no
\* delivery is scheduled and a running debounce timer is not restarted.
C33_NoOpWrite == [][NoOpStep => UNCHANGED progVars]_vars
C33_Witness ==
  /\ hist.op \in {"write", "patch", "overwrite"} /\ hist.delivs = 0
  /\ ~hist.rec /\ hist.pend
  /\ debounce > 0 /\ \E tm \in timers : tm.due > now

\* C35: at most one delivery callback is outstanding (never an immediate
\* and a timer together, never two of either), and none while the instance
\* is paused.
C35_OneCallback == Outstanding <= 1 /\ (paused => Outstanding = 0)
\* a change is recorded after both kinds of callback have been in use (the
\* handle of an earlier immediate and of a timer are both kept) and exactly
\* one timer is outstanding
C35_Witness ==
  /\ hist.op = "write" /\ hist.rec /\ hist.delivs = 0 /\ ~paused
  /\ immediateId # NoHandle /\ timeoutId # NoHandle
  /\ Cardinality(timers) = 1 /\ immediates = {}

\* C34: on an instance that is neither paused nor disposed, whenever the
\* pending diff is non-empty outside a running synchronous operation a
\* delivery callback (immediate or timer) is outstanding; and pending
\* changes on an unpaused instance do not stay pending for ever: once the
\* mutations have stopped they are handed out by a delivery or by silent.
C34_NoLostChange ==
  /\ []((pc = "idle" /\ ~paused /\ ~disposed /\ hasPendingChanges)
          => Outstanding >= 1)
  /\ (hasPendingChanges /\ ~paused) ~> (~hasPendingChanges \/ paused)
\* the caller has stopped, changes are pending and a timer is not yet due
C34_Witness ==
  /\ ~CallerActive /\ pc = "idle" /\ ~paused /\ hasPendingChanges
  /\ hist.fresh # {} /\ \E tm \in timers : tm.due > now

\* C36: every entry of the pending diff describes the tree at its path: a
\* value entry equals the tree's value, a tombstone marks a key the tree
\* does not hold, a recorded length equals the array's length.
C36_PendingAgrees == pc \in {"idle", "silent"} => Agrees(heap, masterDiff, RootAddr)

\* the objects that can be reached from the object at address a
Reach(a) == Range(Traverse(heap, <<a>>, <<>>))

\* C37: a diff handed to the listeners shares no mutable structure with the
\* tree: no object can be reached both from the delivered diff and from the
\* root of the tree.
C37_Detached == pc = "emit" => Reach(emitDiff) \cap Reach(RootAddr) = {}

\* the registrations without the oldest registration of f on path
Scoped(ls, f, path) ==
  LET hit(i) == ls[i].listener = f /\ ls[i].path = path IN
  IF \E i \in DOMAIN ls : hit(i)
  THEN Splice(ls, CHOOSE i \in DOMAIN ls : hit(i) /\ \A j \in 1..(i - 1) : ~hit(j))
  ELSE ls

\* C39: off(wrapper, callback) ends the registration of that callback on
\* that wrapper's path and no other: registrations of the callback on other
\* paths and registrations of other callbacks stay as they were.
C39_OffScoped ==
  [][\A w \in Wrappers, f \in Fns :
       OffFn(w, f) => listeners' = Scoped(listeners, f, GetProxyPath(w))]_vars

\* C38: when a listener calls off during a delivery, removing itself or
\* another listener, every listener that was registered when the delivery
\* began and has not been removed still gets its turn in that delivery,
\* exactly once (and is invoked in it when its fragment is non-empty).
C38_OffDuringDelivery == hist.once

\* C40: patch and overwrite leave their source argument unchanged,
\* including a source whose nested containers hold null entries.
C40_SourceReadOnly == hist.op \in MergeOps => hist.intact

====
